---------------------------- MODULE Spec2Model ----------------------------
(***************************************************************************)
(* A model of final_compression (src/src/lib.rs, liblz4.rs, liblzo.rs):    *)
(* codec identifier resolution, the ParamSet mini-language and its typed   *)
(* accessors, the compressed_writer / decompressed_reader dispatch, the    *)
(* Lz4Wrapper teardown and the LZOWrapperW write/retry protocol.           *)
(*                                                                         *)
(* A Rust String is a sequence of UTF-8 bytes, and is modelled as one: a   *)
(* sequence of integers in 0..255.  S(<<"l","e","v","e","l">>) writes the  *)
(* literal "level".                                                        *)
(***************************************************************************)
EXTENDS Integers, Sequences, FiniteSets, TLC

VARIABLES
    ctype,      \* codec resolution: the identifier string handed to From<&str>
    resolved,   \* "unresolved", a CompressionType variant, or "panic"
    built,      \* whether a facade entry point was called with the variant
    what,       \* ParamSet: the parameter string handed to From<String>
    pstate,     \* "new", "parsed" (map holds the ParamSet) or "panic"
    map,        \* ParamSet.map: a function from key strings to value strings
    call,       \* the latest accessor call on the ParamSet, with its result
    phase,      \* facade: where tests::test stands
    codec,      \* facade: ct, the CompressionType of the run
    option,     \* facade: options, the parameter string of the run
    wrapper,    \* facade: the Box<dyn Write> compressed_writer returned
    out,        \* facade: the bytes of the raw sink (the file)
    payload,    \* facade: the bytes the writes have consumed, in order
    written,    \* facade: the sum of the values the writes returned
    ops,        \* facade: the number of write and flush calls made
    engine,     \* facade: "ok" or "refused", the answer of the engine's
                \*   constructor in the latest entry-point call ("none" before)
    rd,         \* facade: the Box<dyn Read> decompressed_reader returned
    data,       \* facade: what read_to_end produced
    src,        \* Lz4Wrapper.src: <<>> for None, <<encoder>> for Some(encoder)
    sink,       \* Lz4Wrapper: the raw sink, [bytes, flushes]
    log,        \* Lz4Wrapper: what the calls so far did
    buffer,     \* LZOWrapperW.buffer: [len, capacity, bytes]
    writer,     \* LZOWrapperW.writer: the bytes of the raw sink
    lzocall,    \* LZOWrapperW: the latest write call, with its result
    lzowrites   \* LZOWrapperW: the number of write calls made

codecVars == <<ctype, resolved, built>>
paramVars == <<what, pstate, map, call>>
facadeVars ==
    <<phase, codec, option, wrapper, out, payload, written, ops, engine, rd, data>>
lz4Vars == <<src, sink, log>>
lzoVars == <<buffer, writer, lzocall, lzowrites>>

vars == <<codecVars, paramVars, facadeVars, lz4Vars, lzoVars>>

----------------------------------------------------------------------------
(* Strings as byte sequences *)

DigitChars == <<"0","1","2","3","4","5","6","7","8","9">>
UpperChars == <<"A","B","C","D","E","F","G","H","I","J","K","L","M",
                "N","O","P","Q","R","S","T","U","V","W","X","Y","Z">>
LowerChars == <<"a","b","c","d","e","f","g","h","i","j","k","l","m",
                "n","o","p","q","r","s","t","u","v","w","x","y","z">>

IndexOf(t, c) == CHOOSE i \in 1..Len(t) : t[i] = c

InTable(t, c) == \E i \in 1..Len(t) : t[i] = c

\* The ASCII code of a one-character string.
B(c) ==
    IF InTable(DigitChars, c) THEN 47 + IndexOf(DigitChars, c)
    ELSE IF InTable(UpperChars, c) THEN 64 + IndexOf(UpperChars, c)
    ELSE IF InTable(LowerChars, c) THEN 96 + IndexOf(LowerChars, c)
    ELSE CASE c = " " -> 32
           [] c = "%" -> 37
           [] c = "+" -> 43
           [] c = "-" -> 45
           [] c = ":" -> 58
           [] c = ";" -> 59
           [] c = "=" -> 61
           [] c = "_" -> 95

\* A string literal: the bytes of the characters of t.
S(t) == [i \in 1..Len(t) |-> B(t[i])]

\* u8::to_ascii_lowercase / to_ascii_uppercase, and str::to_ascii_lowercase.
ByteLower(b) == IF b >= 65 /\ b <= 90 THEN b + 32 ELSE b
ByteUpper(b) == IF b >= 97 /\ b <= 122 THEN b - 32 ELSE b
to_ascii_lowercase(s) == [i \in 1..Len(s) |-> ByteLower(s[i])]

\* s[from..to) in Rust's half-open, 0-based slice notation.
Slice(s, from, to) == [i \in 1..(to - from) |-> s[from + i]]

starts_with(s, p) == Len(s) >= Len(p) /\ Slice(s, 0, Len(p)) = p

----------------------------------------------------------------------------
(* CompressionType and its resolution from a string: lib.rs 31-87 *)

CompressionType ==
    {"None", "Zstd", "Snappy", "Gzip", "Zlib", "Deflate", "Bzip2", "LZ4", "XZ"}

\* The string patterns of the match in From<&str>, arm by arm.
MatchArms ==
    << [pats |-> {S(<<"z","s","t","d">>), S(<<"Z","S","T","D">>),
                  S(<<"z","s","t">>), S(<<"Z","S","T">>)},         to |-> "Zstd"],
       [pats |-> {S(<<"g","z","i","p">>), S(<<"G","Z","I","P">>),
                  S(<<"g","z">>), S(<<"G","Z">>)},                 to |-> "Gzip"],
       [pats |-> {S(<<"l","z","4">>), S(<<"L","Z","4">>)},         to |-> "LZ4"],
       [pats |-> {S(<<"s","n","a","p","p","y">>),
                  S(<<"S","N","A","P","P","Y">>)},                 to |-> "Snappy"],
       [pats |-> {S(<<"x","z">>), S(<<"X","Z">>)},                 to |-> "XZ"],
       [pats |-> {S(<<"z","l","i","b">>), S(<<"Z","L","I","B">>)}, to |-> "Zlib"],
       [pats |-> {S(<<"b","z","i","p","2">>), S(<<"B","Z","I","P","2">>),
                  S(<<"b","z","2">>), S(<<"B","Z","2">>)},         to |-> "Bzip2"],
       [pats |-> {S(<<"d","e","f","l","a","t","e">>),
                  S(<<"D","E","F","L","A","T","E">>)},             to |-> "Deflate"] >>

\* A mutation of the match: the wildcard arm falls back to None.
CompressionType_from_fallback(id) ==
    IF \E i \in 1..Len(MatchArms) : id \in MatchArms[i].pats
    THEN MatchArms[CHOOSE i \in 1..Len(MatchArms) : id \in MatchArms[i].pats].to
    ELSE "None"

\* From<&str> for CompressionType: the first arm with a pattern equal to the
\* string; the wildcard arm panics.
CompressionType_from(id) ==
    IF \E i \in 1..Len(MatchArms) : id \in MatchArms[i].pats
    THEN MatchArms[CHOOSE i \in 1..Len(MatchArms) : id \in MatchArms[i].pats].to
    ELSE "panic"

----------------------------------------------------------------------------
(* ParamSet: lib.rs 96-187 *)

SEMI == S(<<";">>)
EQUAL == S(<<"=">>)
PREFIX == S(<<"%","%",":">>)
EMPTY == <<>>

\* char::is_whitespace on the ASCII range (the parameter strings drawn
\* below are ASCII): tab, LF, VT, FF, CR and space.
is_whitespace(b) == b \in {9, 10, 11, 12, 13, 32}

RECURSIVE trim_start(_)
trim_start(s) ==
    IF s # <<>> /\ is_whitespace(s[1]) THEN trim_start(Tail(s)) ELSE s

RECURSIVE trim_end(_)
trim_end(s) ==
    IF s # <<>> /\ is_whitespace(s[Len(s)])
    THEN trim_end(Slice(s, 0, Len(s) - 1)) ELSE s

\* str::trim
trim(s) == trim_end(trim_start(s))

\* str::find of a one-byte pattern: the 0-based index of its first
\* occurrence, or -1 for None.
find(s, pat) ==
    IF \E i \in 1..Len(s) : s[i] = pat[1]
    THEN (CHOOSE i \in 1..Len(s) :
              s[i] = pat[1] /\ \A j \in 1..(i - 1) : s[j] # pat[1]) - 1
    ELSE -1

\* str::split on a one-byte separator: every segment, the empty ones too.
RECURSIVE split(_, _)
split(s, sep) ==
    LET p == find(s, sep)
    IN  IF p = -1 THEN <<s>>
        ELSE <<Slice(s, 0, p)>> \o split(Slice(s, p + 1, Len(s)), sep)

\* urlencoding's from_hex_digit: the value of a hex digit, or -1.
from_hex_digit(b) ==
    IF b >= 48 /\ b <= 57 THEN b - 48
    ELSE IF b >= 65 /\ b <= 70 THEN b - 55
    ELSE IF b >= 97 /\ b <= 102 THEN b - 87
    ELSE -1

\* urlencoding::decode_binary: %XY with two hex digits becomes one byte; a
\* '%' not followed by two hex digits is kept as it is.
RECURSIVE decode_binary(_)
decode_binary(s) ==
    IF s = <<>> THEN <<>>
    ELSE IF s[1] # 37 THEN <<s[1]>> \o decode_binary(Tail(s))
    ELSE LET rest == Tail(s)
         IN  IF Len(rest) < 2 THEN <<37>> \o rest
             ELSE IF from_hex_digit(rest[1]) = -1
                  THEN <<37>> \o decode_binary(rest)
             ELSE IF from_hex_digit(rest[2]) = -1
                  THEN <<37, rest[1]>> \o decode_binary(Tail(rest))
             ELSE <<from_hex_digit(rest[1]) * 16 + from_hex_digit(rest[2])>>
                  \o decode_binary(Slice(rest, 2, Len(rest)))

cont(b) == b >= 128 /\ b <= 191

\* String::from_utf8's validity check (the well-formed byte sequences of
\* the Unicode standard, table 3-7).
RECURSIVE utf8_valid(_)
utf8_valid(s) ==
    IF s = <<>> THEN TRUE
    ELSE LET b == s[1]
             n == Len(s)
         IN  IF b <= 127 THEN utf8_valid(Tail(s))
             ELSE IF b >= 194 /\ b <= 223
                  THEN n >= 2 /\ cont(s[2]) /\ utf8_valid(Slice(s, 2, n))
             ELSE IF b >= 224 /\ b <= 239
                  THEN /\ n >= 3
                       /\ cont(s[2]) /\ cont(s[3])
                       /\ (b = 224 => s[2] >= 160)
                       /\ (b = 237 => s[2] <= 159)
                       /\ utf8_valid(Slice(s, 3, n))
             ELSE IF b >= 240 /\ b <= 244
                  THEN /\ n >= 4
                       /\ cont(s[2]) /\ cont(s[3]) /\ cont(s[4])
                       /\ (b = 240 => s[2] >= 144)
                       /\ (b = 244 => s[2] <= 143)
                       /\ utf8_valid(Slice(s, 4, n))
             ELSE FALSE

\* ParamSet::url_decode: decode(input).expect("UTF-8") panics when the
\* decoded bytes are not UTF-8.
url_decode(input) ==
    LET decoded == decode_binary(input)
    IN  IF utf8_valid(decoded) THEN [panic |-> FALSE, value |-> decoded]
        ELSE [panic |-> TRUE, value |-> <<>>]

\* A mutation of insert: a key already present keeps its value.
insert_keep(m, k, v) ==
    [x \in DOMAIN m \cup {k} |-> IF x \in DOMAIN m THEN m[x] ELSE v]

\* HashMap::insert
insert(m, k, v) ==
    [x \in DOMAIN m \cup {k} |-> IF x = k THEN v ELSE m[x]]

\* The loop body of From<String> on one token, as a step on the map.
RECURSIVE ParamSet_loop(_, _)
ParamSet_loop(tokens, m) ==
    IF tokens = <<>> THEN [panic |-> FALSE, map |-> m]
    ELSE
      LET next == Head(tokens)
          equal_pos == find(next, EQUAL)
      IN  IF equal_pos = -1 THEN ParamSet_loop(Tail(tokens), m)
          ELSE
            LET first == trim(Slice(next, 0, equal_pos))
                second == trim(Slice(next, equal_pos + 1, Len(next)))
                actual == IF starts_with(second, PREFIX)
                          THEN url_decode(Slice(second, 3, Len(second)))
                          ELSE [panic |-> FALSE, value |-> second]
            IN  IF actual.panic THEN [panic |-> TRUE, map |-> m]
                ELSE ParamSet_loop(Tail(tokens), insert(m, first, actual.value))

\* From<String> for ParamSet
ParamSet_from(w) ==
    LET tokens == SelectSeq(split(w, SEMI), LAMBDA x : Len(trim(x)) > 0)
    IN  ParamSet_loop(tokens, <<>>)

\* ParamSet::get_string
get_string(m, key, default_value) ==
    IF key \notin DOMAIN m THEN default_value ELSE m[key]

\* ParamSet::get_bool
get_bool(m, key, default_value) ==
    LET str_value == get_string(m, key, EMPTY)
    IN  IF str_value = EMPTY THEN default_value
        ELSE \/ to_ascii_lowercase(str_value) = S(<<"T","R","U","E">>)
             \/ to_ascii_lowercase(str_value) = S(<<"f","a","l","s","e">>)

\* The decimal digits of the largest magnitude each integer type holds.
MaxDigitsOf(ty, neg) ==
    IF ty = "u32" THEN <<4,2,9,4,9,6,7,2,9,5>>
    ELSE IF neg THEN <<2,1,4,7,4,8,3,6,4,8>>
    ELSE <<2,1,4,7,4,8,3,6,4,7>>

RECURSIVE strip_zeros(_)
strip_zeros(ds) ==
    IF ds # <<>> /\ ds[1] = 48 THEN strip_zeros(Tail(ds)) ELSE ds

\* Whether the digit string ds (no leading zero) exceeds the digits mx.
Exceeds(ds, mx) ==
    \/ Len(ds) > Len(mx)
    \/ /\ Len(ds) = Len(mx)
       /\ \E i \in 1..Len(ds) :
             /\ ds[i] - 48 > mx[i]
             /\ \A j \in 1..(i - 1) : ds[j] - 48 = mx[j]

RECURSIVE digits_value(_, _, _)
digits_value(ds, acc, sign) ==
    IF ds = <<>> THEN acc
    ELSE digits_value(Tail(ds), acc * 10 + sign * (ds[1] - 48), sign)

\* <i32 as FromStr>::from_str and <u32 as FromStr>::from_str: an optional
\* '+' (or '-' for the signed type), then decimal digits; an empty string,
\* a lone sign, any other character and an overflow are errors.
from_str(ty, s) ==
    LET signed == ty = "i32"
        err == [ok |-> FALSE, value |-> 0]
    IN  IF s = <<>> THEN err
        ELSE IF Len(s) = 1 /\ s[1] \in {43, 45} THEN err
        ELSE
          LET neg == signed /\ s[1] = 45
              digits == IF s[1] = 43 \/ neg THEN Tail(s) ELSE s
              sig == strip_zeros(digits)
          IN  IF \E i \in 1..Len(digits) : digits[i] < 48 \/ digits[i] > 57
              THEN err
              ELSE IF Exceeds(sig, MaxDigitsOf(ty, neg)) THEN err
              ELSE [ok |-> TRUE,
                    value |-> digits_value(sig, 0, IF neg THEN -1 ELSE 1)]

\* ParamSet::get_parse::<T>
get_parse(ty, m, key, default_value) ==
    LET str_value == get_string(m, key, EMPTY)
    IN  IF str_value = EMPTY THEN default_value
        ELSE LET result == from_str(ty, str_value)
             IN  IF ~result.ok THEN default_value ELSE result.value

\* The parameter names and values the dispatch reads.
K_level == S(<<"l","e","v","e","l">>)
K_block_mode == S(<<"b","l","o","c","k","_","m","o","d","e">>)
V_linked == S(<<"l","i","n","k","e","d">>)
V_independent == S(<<"i","n","d","e","p","e","n","d","e","n","t">>)

----------------------------------------------------------------------------
(* The codec engines.  They are external crates (zstd, snap, flate2, bzip2, *)
(* lz4, xz2) that the facade treats as black boxes; what the facade relies  *)
(* on is modelled: a stream is a header naming the codec, length-prefixed   *)
(* blocks, and (but for the snappy frame format) a trailer with a checksum  *)
(* that only finishing the encoder writes.                                  *)

CodecOrder == <<"Zstd", "Snappy", "Gzip", "Zlib", "Deflate", "Bzip2", "LZ4", "XZ">>

\* The first byte of a codec's stream.
Magic(c) == 100 + IndexOf(CodecOrder, c)

RECURSIVE Sum(_)
Sum(bytes) == IF bytes = <<>> THEN 0 ELSE bytes[1] + Sum(Tail(bytes))

Checksum(bytes) == Sum(bytes) % 256

HasTrailer(c) == c # "Snappy"

\* An encoder as its constructor leaves it.
enc_new(c, level, block_mode, auto_flush, checksum) ==
    [codec |-> c, level |-> level, block_mode |-> block_mode,
     auto_flush |-> auto_flush, checksum |-> checksum,
     buf |-> <<>>, started |-> FALSE, all |-> <<>>]

enc_header(e) == IF e.started THEN <<>> ELSE <<Magic(e.codec)>>

enc_block(bytes) == IF bytes = <<>> THEN <<>> ELSE <<1, Len(bytes)>> \o bytes

\* Encoder::flush: the pending input leaves as one block.
enc_flush(e) ==
    [enc |-> [e EXCEPT !.buf = <<>>, !.started = TRUE],
     emit |-> enc_header(e) \o enc_block(e.buf)]

\* Encoder::write: the input is consumed whole; an auto-flushing encoder
\* emits it at once.
enc_write(e, bytes) ==
    LET e1 == [e EXCEPT !.buf = e.buf \o bytes, !.all = e.all \o bytes]
    IN  IF e.auto_flush THEN enc_flush(e1) ELSE [enc |-> e1, emit |-> <<>>]

\* Encoder::finish: the pending input, then the trailer.
enc_finish(e) ==
    LET f == enc_flush(e)
    IN  [enc |-> f.enc,
         emit |-> f.emit \o (IF HasTrailer(e.codec)
                             THEN <<0, Checksum(e.all)>> ELSE <<>>)]

\* lz4::EncoderBuilder::build writes the frame header as it builds.
lz4_build(e) == enc_flush(e)

\* The blocks of a stream after its header.
RECURSIVE dec_blocks(_, _, _)
dec_blocks(c, bytes, acc) ==
    IF bytes = <<>>
    THEN [ok |-> ~HasTrailer(c), data |-> acc]
    ELSE IF bytes[1] = 1
    THEN IF Len(bytes) < 2 \/ Len(bytes) < 2 + bytes[2]
         THEN [ok |-> FALSE, data |-> acc]
         ELSE dec_blocks(c, Slice(bytes, 2 + bytes[2], Len(bytes)),
                         acc \o Slice(bytes, 2, 2 + bytes[2]))
    ELSE IF /\ bytes[1] = 0
            /\ HasTrailer(c)
            /\ Len(bytes) >= 2
            /\ bytes[2] = Checksum(acc)
    THEN [ok |-> TRUE, data |-> acc]
    ELSE [ok |-> FALSE, data |-> acc]

\* A decoder read to its end over the bytes of a stream.
dec_read_to_end(c, bytes) ==
    IF bytes = <<>> \/ bytes[1] # Magic(c)
    THEN [ok |-> FALSE, data |-> <<>>]
    ELSE dec_blocks(c, Tail(bytes), <<>>)

----------------------------------------------------------------------------
(* Lz4Wrapper: liblz4.rs *)

\* Lz4Wrapper::new
Lz4Wrapper_new(enc) == [kind |-> "Lz4Wrapper", src |-> <<enc>>]

\* Write::write for Lz4Wrapper: self.src.as_mut().unwrap().write(data)
Lz4Wrapper_write(self, bytes) ==
    IF self.src = <<>>
    THEN [self |-> self, emit |-> <<>>, n |-> 0, flushes |-> 0, finishes |-> 0,
          panic |-> TRUE]
    ELSE LET r == enc_write(self.src[1], bytes)
         IN  [self |-> [self EXCEPT !.src = <<r.enc>>], emit |-> r.emit,
              n |-> Len(bytes), flushes |-> 0, finishes |-> 0, panic |-> FALSE]

\* Write::flush for Lz4Wrapper: self.src.as_mut().unwrap().flush(); the
\* encoder's flush flushes the raw sink too.
Lz4Wrapper_flush(self) ==
    IF self.src = <<>>
    THEN [self |-> self, emit |-> <<>>, n |-> 0, flushes |-> 0, finishes |-> 0,
          panic |-> TRUE]
    ELSE LET r == enc_flush(self.src[1])
         IN  [self |-> [self EXCEPT !.src = <<r.enc>>], emit |-> r.emit,
              n |-> 0, flushes |-> 1, finishes |-> 0, panic |-> FALSE]

\* A mutation of drop: the encoder is taken but never finished.
Lz4Wrapper_drop_nofinish(self) ==
    IF self.src = <<>>
    THEN [self |-> self, emit |-> <<>>, n |-> 0, flushes |-> 0, finishes |-> 0,
          panic |-> TRUE]
    ELSE [self |-> [self EXCEPT !.src = <<>>], emit |-> <<>>,
          n |-> 0, flushes |-> 1, finishes |-> 0, panic |-> FALSE]

\* Drop::drop for Lz4Wrapper: self.src.take().unwrap() panics on an empty
\* slot; else the encoder is finished and the raw sink it returns flushed.
Lz4Wrapper_drop(self) ==
    IF self.src = <<>>
    THEN [self |-> self, emit |-> <<>>, n |-> 0, flushes |-> 0, finishes |-> 0,
          panic |-> TRUE]
    ELSE LET r == enc_finish(self.src[1])
         IN  [self |-> [self EXCEPT !.src = <<>>], emit |-> r.emit,
              n |-> 0, flushes |-> 1, finishes |-> 1, panic |-> FALSE]

----------------------------------------------------------------------------
(* The facade entry points: lib.rs 206-329 *)

\* The Box<dyn Write> of each branch of compressed_writer.
WriterKind(ct) ==
    CASE ct = "Zstd" -> "AutoFinishEncoder"
      [] ct = "Snappy" -> "FrameEncoder"
      [] ct = "Gzip" -> "GzEncoder"
      [] ct = "Zlib" -> "ZlibEncoder"
      [] ct = "Deflate" -> "DeflateEncoder"
      [] ct = "Bzip2" -> "BzEncoder"
      [] ct = "LZ4" -> "Lz4Wrapper"
      [] ct = "XZ" -> "XzEncoder"
      [] ct = "None" -> "Raw"

NoWriter == [kind |-> "none", src |-> <<>>]

Writer(ct, enc) == [kind |-> WriterKind(ct), src |-> <<enc>>]

\* A mutation of the dispatch: the Zstd branch reads its level with the
\* default of the LZ4 branch.
zstd_level_default_1(m) == get_parse("i32", m, K_level, 1)

\* The Zstd branch's let level = param_set.get_parse("level", 3);
zstd_level(m) == get_parse("i32", m, K_level, 3)

\* let autof = write.auto_finish(); Ok(Box::new(autof))
zstd_writer(enc) == Writer("Zstd", enc)

\* compressed_writer(out, compression_type, option).  engine_ok is the
\* answer of the engine's fallible constructor (zstd::Encoder::new,
\* lz4::EncoderBuilder::build); the other constructors return no Result.
\* res is "Ok" (wrapper is the stream), "Err" (an error value returned) or
\* "panic"; emit is what construction wrote to the raw sink.
compressed_writer(ct, opt, engine_ok) ==
    LET param_set == ParamSet_from(opt)
        m == param_set.map
        fail(r) == [res |-> r, wrapper |-> NoWriter, emit |-> <<>>]
        ok(wr) == [res |-> "Ok", wrapper |-> wr, emit |-> <<>>]
    IN  IF param_set.panic THEN fail("panic")
        ELSE CASE ct = "Zstd" ->
                    IF ~engine_ok THEN fail("Err")
                    ELSE ok(zstd_writer(
                             enc_new(ct, zstd_level(m), "none", FALSE, FALSE)))
               [] ct = "Snappy" ->
                    ok(Writer(ct, enc_new(ct, 0, "none", FALSE, FALSE)))
               [] ct \in {"Gzip", "Zlib", "Deflate", "Bzip2"} ->
                    ok(Writer(ct, enc_new(ct, get_parse("u32", m, K_level, 3),
                                          "none", FALSE, FALSE)))
               [] ct = "LZ4" ->
                    LET block_mode == get_string(m, K_block_mode, V_linked)
                        level == get_parse("u32", m, K_level, 1)
                        mode == IF block_mode = V_independent
                                THEN "Independent" ELSE "Linked"
                        b == lz4_build(enc_new(ct, level, mode, TRUE, TRUE))
                    IN  IF ~engine_ok THEN fail("panic")
                        ELSE [res |-> "Ok", wrapper |-> Lz4Wrapper_new(b.enc),
                              emit |-> b.emit]
               [] ct = "XZ" ->
                    ok(Writer(ct, enc_new(ct, get_parse("u32", m, K_level, 6),
                                          "none", FALSE, FALSE)))
               [] ct = "None" ->
                    ok([kind |-> "Raw", src |-> <<>>])

\* Write::write on the Box<dyn Write>.
wrapper_write(wr, bytes) ==
    IF wr.kind = "Raw"
    THEN [self |-> wr, emit |-> bytes, n |-> Len(bytes), flushes |-> 0,
          finishes |-> 0, panic |-> FALSE]
    ELSE IF wr.kind = "Lz4Wrapper" THEN Lz4Wrapper_write(wr, bytes)
    ELSE LET r == enc_write(wr.src[1], bytes)
         IN  [self |-> [wr EXCEPT !.src = <<r.enc>>], emit |-> r.emit,
              n |-> Len(bytes), flushes |-> 0, finishes |-> 0, panic |-> FALSE]

\* Write::flush on the Box<dyn Write>.
wrapper_flush(wr) ==
    IF wr.kind = "Raw"
    THEN [self |-> wr, emit |-> <<>>, n |-> 0, flushes |-> 1,
          finishes |-> 0, panic |-> FALSE]
    ELSE IF wr.kind = "Lz4Wrapper" THEN Lz4Wrapper_flush(wr)
    ELSE LET r == enc_flush(wr.src[1])
         IN  [self |-> [wr EXCEPT !.src = <<r.enc>>], emit |-> r.emit,
              n |-> 0, flushes |-> 1, finishes |-> 0, panic |-> FALSE]

\* drop(wrapper): the Lz4Wrapper's own Drop; the AutoFinishEncoder and the
\* flate2, bzip2 and xz2 encoders finish their stream as they drop, the
\* snappy FrameEncoder flushes (its stream has no trailer); the raw sink
\* writes nothing.
wrapper_drop(wr) ==
    IF wr.kind = "Lz4Wrapper" THEN Lz4Wrapper_drop(wr)
    ELSE IF wr.kind = "Raw"
    THEN [self |-> [wr EXCEPT !.src = <<>>], emit |-> <<>>, n |-> 0,
          flushes |-> 0, finishes |-> 0, panic |-> FALSE]
    ELSE LET r == enc_finish(wr.src[1])
         IN  [self |-> [wr EXCEPT !.src = <<>>], emit |-> r.emit, n |-> 0,
              flushes |-> 0, finishes |-> 1, panic |-> FALSE]

NoReader == [kind |-> "none", codec |-> "none"]

\* The codec whose decoder each branch of decompressed_reader builds.
ReaderCodec(ct) == ct

\* decompressed_reader(src, compression_type).  engine_ok is the answer of
\* the fallible constructors (zstd::Decoder::new, lz4::Decoder::new), both
\* propagated with `?`.
decompressed_reader(ct, engine_ok) ==
    IF ct \in {"Zstd", "LZ4"} /\ ~engine_ok
    THEN [res |-> "Err", reader |-> NoReader]
    ELSE [res |-> "Ok",
          reader |-> [kind |-> IF ct = "None" THEN "Raw" ELSE "Decoder",
                      codec |-> ReaderCodec(ct)]]

\* Read::read_to_end on the Box<dyn Read> over the bytes of the source.
read_to_end(reader, bytes) ==
    IF reader.kind = "Raw" THEN [ok |-> TRUE, data |-> bytes]
    ELSE dec_read_to_end(reader.codec, bytes)

----------------------------------------------------------------------------
(* LZOWrapperW: liblzo.rs *)

\* Vec::with_capacity(8192) in LZOWrapperW::new
InitialCapacity == 8192

\* LZOWrapperW::new
LZOWrapperW_new ==
    [len |-> 0, capacity |-> InitialCapacity, bytes |-> <<>>]

\* What lzo1x_1_compress writes for an input too short to hold a match:
\* one literal run, then the end-of-stream marker.
lzo1x_literal(bytes) ==
    (IF bytes = <<>> THEN <<>> ELSE <<17 + Len(bytes)>> \o bytes) \o <<17, 0, 0>>

\* Vec::clear
clear(buf) == [buf EXCEPT !.len = 0, !.bytes = <<>>]

\* A mutation of the overrun branch: the buffer is resized to its present
\* capacity, which grows nothing.
resize_same(buf) == [buf EXCEPT !.len = buf.capacity, !.bytes = <<>>]

\* self.buffer.resize(self.buffer.capacity() * 2, 0u8): the new length is
\* twice the capacity, and the capacity grows to hold it.
resize_double(buf) ==
    [buf EXCEPT !.len = buf.capacity * 2, !.capacity = buf.capacity * 2,
                !.bytes = <<>>]

\* Write::write for LZOWrapperW.  answers is what the engine's compress
\* reports, attempt by attempt; attempts collects, per attempt, the input
\* and the capacity presented and what the attempt sent to the raw sink.
RECURSIVE LZOWrapperW_write(_, _, _, _)
LZOWrapperW_write(buf, bytes, answers, attempts) ==
    LET b == clear(buf)
        cr == Head(answers)
        att(sent) == Append(attempts,
                         [input |-> bytes, capacity |-> b.capacity, sent |-> sent])
    IN  CASE cr = "OK" ->
               LET compressed == lzo1x_literal(bytes)
                   nwritten == Len(compressed)
                   to_write == Slice(compressed, 0, nwritten)
               IN  [buffer |-> [b EXCEPT !.len = nwritten, !.bytes = compressed],
                    ok |-> TRUE, n |-> Len(to_write), attempts |-> att(to_write)]
          [] cr = "NOT_COMPRESSIBLE" ->
               [buffer |-> b, ok |-> TRUE, n |-> Len(bytes),
                attempts |-> att(bytes)]
          [] cr = "OUTPUT_OVERRUN" ->
               LZOWrapperW_write(resize_double(b), bytes, Tail(answers),
                                 att(<<>>))
          [] OTHER ->
               [buffer |-> b, ok |-> FALSE, n |-> 0, attempts |-> att(<<>>)]

----------------------------------------------------------------------------
(* Codec resolution as a state machine *)

\* Every upper/lower-case spelling of a string.
RECURSIVE Spellings(_)
Spellings(name) ==
    IF name = <<>> THEN {<<>>}
    ELSE {<<c>> \o r : c \in {ByteLower(name[1]), ByteUpper(name[1])},
                       r \in Spellings(Tail(name))}

\* Strings that are no spelling of a codec name.
OtherIdentifiers ==
    { <<>>, S(<<"n","o","n","e">>), S(<<"N","o","n","e">>), S(<<"l","z","o">>),
      S(<<"g","z","i","p","x">>), S(<<" ","g","z">>), S(<<"z">>),
      S(<<"l","z","m","a">>), S(<<"b","z","i","p">>) }

Identifiers ==
    UNION { UNION {Spellings(pat) : pat \in MatchArms[i].pats} :
            i \in 1..Len(MatchArms) }
    \cup OtherIdentifiers

CodecIdle == ctype = <<>> /\ resolved = "idle" /\ built = FALSE

CodecInit == ctype \in Identifiers /\ resolved = "unresolved" /\ built = FALSE

\* let ct: CompressionType = ctype.into();
Resolve ==
    /\ resolved = "unresolved"
    /\ resolved' = CompressionType_from(ctype)
    /\ UNCHANGED <<ctype, built, paramVars, facadeVars, lz4Vars, lzoVars>>

\* compressed_writer / decompressed_reader take a CompressionType: they are
\* called only once the identifier has resolved to a variant.
Build ==
    /\ resolved \in CompressionType
    /\ ~built
    /\ built' = TRUE
    /\ UNCHANGED <<ctype, resolved, paramVars, facadeVars, lz4Vars, lzoVars>>

----------------------------------------------------------------------------
(* The ParamSet as a state machine *)

MaxTokens == 2

K_flag == S(<<"f","l","a","g">>)
K_k == S(<<"k">>)

\* key=value
KV(k, v) == k \o EQUAL \o v

\* The tokens the parameter strings are made of: well-formed ones, blank
\* ones, ones without '=', padded ones, repeated '=', and %%: values that
\* decode (to ";", to "%%:x", to a two-byte character) or do not (%FF).
Tokens ==
    { <<>>, S(<<" ">>), K_level, S(<<"=","x">>),
      KV(K_level, S(<<"3">>)), KV(K_level, S(<<"7">>)),
      S(<<" ">>) \o K_level \o S(<<" ","="," ","5"," ">>),
      KV(K_level, EMPTY), KV(K_level, S(<<"a","b","c">>)),
      KV(K_level, S(<<"-","1">>)),
      KV(K_level, S(<<"4","2","9","4","9","6","7","2","9","6">>)),
      KV(S(<<"a">>), S(<<"b","=","c">>)),
      KV(K_flag, S(<<"t","r","u","e">>)), KV(K_flag, S(<<"T","r","u","e">>)),
      KV(K_flag, S(<<"f","a","l","s","e">>)), KV(K_flag, S(<<"y","e","s">>)),
      KV(K_block_mode, V_independent), KV(K_block_mode, V_linked),
      KV(K_k, PREFIX \o S(<<"%","3","B">>)),
      KV(K_k, PREFIX \o S(<<"%","2","5","%","2","5","%","3","A","x">>)),
      KV(K_k, PREFIX \o S(<<"%","C","3","%","A","9">>)),
      KV(K_k, PREFIX \o S(<<"%","F","F">>)),
      KV(K_k, S(<<"%","%">>)) }

RECURSIVE Join(_)
Join(ts) ==
    IF ts = <<>> THEN <<>>
    ELSE IF Len(ts) = 1 THEN ts[1]
    ELSE ts[1] \o SEMI \o Join(Tail(ts))

TokenSeqs(n) == UNION {[1..k -> Tokens] : k \in 0..n}

ParamStrings == {Join(ts) : ts \in TokenSeqs(MaxTokens)}

NoCall == [fn |-> "none"]

ParamIdle == what = <<>> /\ pstate = "idle" /\ map = <<>> /\ call = NoCall

ParamInit ==
    what \in ParamStrings /\ pstate = "new" /\ map = <<>> /\ call = NoCall

\* let param_set: ParamSet = what.into();
Parse ==
    /\ pstate = "new"
    /\ LET r == ParamSet_from(what)
       IN  /\ pstate' = IF r.panic THEN "panic" ELSE "parsed"
           /\ map' = IF r.panic THEN <<>> ELSE r.map
    /\ UNCHANGED <<what, call, codecVars, facadeVars, lz4Vars, lzoVars>>

Keys == {K_level, K_block_mode, K_flag, K_k}

GetString ==
    /\ pstate = "parsed"
    /\ call = NoCall
    /\ \E key \in Keys, d \in {EMPTY, V_linked} :
          call' = [fn |-> "get_string", key |-> key, default |-> d,
                   result |-> get_string(map, key, d)]
    /\ UNCHANGED <<what, pstate, map, codecVars, facadeVars, lz4Vars, lzoVars>>

GetBool ==
    /\ pstate = "parsed"
    /\ call = NoCall
    /\ \E key \in Keys, d \in BOOLEAN :
          call' = [fn |-> "get_bool", key |-> key, default |-> d,
                   result |-> get_bool(map, key, d)]
    /\ UNCHANGED <<what, pstate, map, codecVars, facadeVars, lz4Vars, lzoVars>>

GetParse ==
    /\ pstate = "parsed"
    /\ call = NoCall
    /\ \E key \in Keys, ty \in {"i32", "u32"}, d \in {1, 3, 6} :
          call' = [fn |-> "get_parse", key |-> key, default |-> d, ty |-> ty,
                   result |-> get_parse(ty, map, key, d)]
    /\ UNCHANGED <<what, pstate, map, codecVars, facadeVars, lz4Vars, lzoVars>>

----------------------------------------------------------------------------
(* The facade as a state machine: the steps of tests::test *)

MaxChunk == 2
MaxOps == 2

Bytes == {7, 200}

\* The byte strings a write call is given.
Chunks == UNION {[1..n -> Bytes] : n \in 0..MaxChunk}

\* The parameter strings of the runs.
Options ==
    { <<>>,
      KV(K_level, S(<<"0">>)), KV(K_level, S(<<"1">>)),
      KV(K_level, S(<<"3">>)), KV(K_level, S(<<"6">>)),
      KV(K_level, PREFIX \o S(<<"9">>)),
      KV(K_level, EMPTY), KV(K_level, S(<<"a","b","c">>)),
      KV(K_level, S(<<"-","1">>)),
      KV(K_block_mode, V_linked), KV(K_block_mode, V_independent),
      KV(K_block_mode, S(<<"L","i","n","k","e","d">>)),
      KV(K_level, S(<<"1">>)) \o SEMI \o KV(K_block_mode, V_linked),
      KV(K_flag, S(<<"t","r","u","e">>)) \o SEMI \o SEMI \o K_k,
      KV(K_k, PREFIX \o S(<<"%","3","B">>)),
      KV(K_k, PREFIX \o S(<<"%","F","F">>)) }

FacadeIdle ==
    /\ phase = "idle" /\ codec = "None" /\ option = <<>>
    /\ wrapper = NoWriter /\ out = <<>> /\ payload = <<>>
    /\ written = 0 /\ ops = 0 /\ engine = "none" /\ rd = NoReader /\ data = <<>>

FacadeInit ==
    /\ phase = "start" /\ codec \in CompressionType /\ option \in Options
    /\ wrapper = NoWriter /\ out = <<>> /\ payload = <<>>
    /\ written = 0 /\ ops = 0 /\ engine = "none" /\ rd = NoReader /\ data = <<>>

notFacade == <<codecVars, paramVars, lz4Vars, lzoVars>>

\* What the engine's constructor may answer: only zstd's and lz4's return
\* a Result.
EngineAnswers(ct) == IF ct \in {"Zstd", "LZ4"} THEN BOOLEAN ELSE {TRUE}

\* let mut wrapper = compressed_writer(Box::new(out), ct, options)
CompressedWriter ==
    /\ phase = "start"
    /\ \E engine_ok \in EngineAnswers(codec) :
          LET r == compressed_writer(codec, option, engine_ok)
          IN  /\ phase' = CASE r.res = "Ok" -> "writing"
                            [] r.res = "Err" -> "writer_err"
                            [] r.res = "panic" -> "writer_panic"
              /\ wrapper' = r.wrapper
              /\ out' = out \o r.emit
              /\ engine' = IF engine_ok THEN "ok" ELSE "refused"
    /\ UNCHANGED <<codec, option, payload, written, ops, rd, data, notFacade>>

\* wrapper.write(bytes)
Write ==
    /\ phase = "writing"
    /\ ops < MaxOps
    /\ \E bytes \in Chunks :
          LET r == wrapper_write(wrapper, bytes)
          IN  /\ wrapper' = r.self
              /\ out' = out \o r.emit
              /\ payload' = payload \o Slice(bytes, 0, r.n)
              /\ written' = written + r.n
    /\ ops' = ops + 1
    /\ UNCHANGED <<phase, codec, option, engine, rd, data, notFacade>>

\* wrapper.flush()
Flush ==
    /\ phase = "writing"
    /\ ops < MaxOps
    /\ LET r == wrapper_flush(wrapper)
       IN  /\ wrapper' = r.self
           /\ out' = out \o r.emit
    /\ ops' = ops + 1
    /\ UNCHANGED <<phase, codec, option, payload, written, engine, rd, data,
                   notFacade>>

\* drop(wrapper)
Drop ==
    /\ phase = "writing"
    /\ LET r == wrapper_drop(wrapper)
       IN  /\ wrapper' = r.self
           /\ out' = out \o r.emit
    /\ phase' = "dropped"
    /\ UNCHANGED <<codec, option, payload, written, ops, engine, rd, data,
                   notFacade>>

\* let mut wrapper = decompressed_reader(Box::new(input), ct)
DecompressedReader ==
    /\ phase = "dropped"
    /\ \E engine_ok \in EngineAnswers(codec) :
          LET r == decompressed_reader(codec, engine_ok)
          IN  /\ phase' = IF r.res = "Ok" THEN "reading" ELSE "reader_err"
              /\ rd' = r.reader
              /\ engine' = IF engine_ok THEN "ok" ELSE "refused"
    /\ UNCHANGED <<codec, option, wrapper, out, payload, written, ops, data,
                   notFacade>>

\* wrapper.read_to_end(&mut data)
ReadToEnd ==
    /\ phase = "reading"
    /\ LET r == read_to_end(rd, out)
       IN  /\ data' = r.data
           /\ phase' = IF r.ok THEN "done" ELSE "read_err"
    /\ UNCHANGED <<codec, option, wrapper, out, payload, written, ops, engine,
                   rd, notFacade>>

----------------------------------------------------------------------------
(* The Lz4Wrapper as a state machine: write, flush and teardown calls *)

MaxDrops == 2

NoLog == [finishes |-> 0, final_flushes |-> 0, drops |-> 0, calls |-> 0,
          panicked |-> FALSE]

Lz4Idle == src = <<>> /\ sink = [bytes |-> <<>>, flushes |-> 0] /\ log = NoLog

\* The wrapper as the LZ4 branch of compressed_writer builds it.
Lz4Init ==
    /\ \E opt \in Options :
          LET r == compressed_writer("LZ4", opt, TRUE)
          IN  /\ r.res = "Ok"
              /\ src = r.wrapper.src
              /\ sink = [bytes |-> r.emit, flushes |-> 0]
    /\ log = NoLog

notLz4 == <<codecVars, paramVars, facadeVars, lzoVars>>

Lz4Self == [kind |-> "Lz4Wrapper", src |-> src]

\* What a call on the wrapper leaves behind.
Lz4After(r, is_drop) ==
    /\ src' = r.self.src
    /\ sink' = [bytes |-> sink.bytes \o r.emit,
                flushes |-> sink.flushes + r.flushes]
    /\ log' = [finishes |-> log.finishes + r.finishes,
               final_flushes |->
                   log.final_flushes + (IF is_drop THEN r.flushes ELSE 0),
               drops |-> log.drops + (IF is_drop THEN 1 ELSE 0),
               calls |-> log.calls + (IF is_drop THEN 0 ELSE 1),
               panicked |-> r.panic]

Lz4Write ==
    /\ ~log.panicked /\ log.drops = 0 /\ log.calls < MaxOps
    /\ \E bytes \in Chunks : Lz4After(Lz4Wrapper_write(Lz4Self, bytes), FALSE)
    /\ UNCHANGED notLz4

Lz4Flush ==
    /\ ~log.panicked /\ log.drops = 0 /\ log.calls < MaxOps
    /\ Lz4After(Lz4Wrapper_flush(Lz4Self), FALSE)
    /\ UNCHANGED notLz4

\* A teardown: Drop::drop runs on the wrapper, a first time or again.
Lz4Drop ==
    /\ ~log.panicked /\ log.drops < MaxDrops
    /\ Lz4After(Lz4Wrapper_drop(Lz4Self), TRUE)
    /\ UNCHANGED notLz4

----------------------------------------------------------------------------
(* The LZOWrapperW as a state machine: write calls *)

MaxOverruns == 2
MaxLzoWrites == 2

\* The inputs of the write calls.
LzoInputs == {<<>>, <<7>>, <<7, 200>>}

\* What the engine may answer over the attempts of one write call: k times
\* "output buffer too small", then a last answer.
Answers ==
    { [i \in 1..(k + 1) |-> IF i <= k THEN "OUTPUT_OVERRUN" ELSE last] :
        k \in 0..MaxOverruns,
        last \in {"OK", "NOT_COMPRESSIBLE", "INPUT_OVERRUN"} }

NoLzoCall == [fn |-> "none"]

LzoIdle ==
    /\ buffer = [len |-> 0, capacity |-> 0, bytes |-> <<>>]
    /\ writer = <<>> /\ lzocall = NoLzoCall /\ lzowrites = 0

LzoInit ==
    /\ buffer = LZOWrapperW_new
    /\ writer = <<>> /\ lzocall = NoLzoCall /\ lzowrites = 0

RECURSIVE Sent(_)
Sent(attempts) ==
    IF attempts = <<>> THEN <<>> ELSE attempts[1].sent \o Sent(Tail(attempts))

\* self.write(data), with the retries it makes.
LzoWrite ==
    /\ lzowrites < MaxLzoWrites
    /\ \E bytes \in LzoInputs, answers \in Answers :
          LET r == LZOWrapperW_write(buffer, bytes, answers, <<>>)
          IN  /\ buffer' = r.buffer
              /\ writer' = writer \o Sent(r.attempts)
              /\ lzocall' = [fn |-> "write", data |-> bytes, answers |-> answers,
                             before |-> writer, ok |-> r.ok, n |-> r.n,
                             attempts |-> r.attempts]
    /\ lzowrites' = lzowrites + 1
    /\ UNCHANGED <<codecVars, paramVars, facadeVars, lz4Vars>>

\* self.flush(): the raw sink's flush; nothing of the wrapper changes.
LzoFlush ==
    /\ lzowrites < MaxLzoWrites
    /\ lzocall' = [fn |-> "flush", ok |-> TRUE]
    /\ lzowrites' = lzowrites + 1
    /\ UNCHANGED <<buffer, writer, codecVars, paramVars, facadeVars, lz4Vars>>

----------------------------------------------------------------------------
(* Specifications *)

\* tests::test over every codec and parameter string.
Init == FacadeInit /\ CodecIdle /\ ParamIdle /\ Lz4Idle /\ LzoIdle
Next ==
    \/ CompressedWriter
    \/ Write
    \/ Flush
    \/ Drop
    \/ DecompressedReader
    \/ ReadToEnd
Spec == Init /\ [][Next]_vars

\* Resolving codec identifiers.
SpecCodecInit == CodecInit /\ ParamIdle /\ FacadeIdle /\ Lz4Idle /\ LzoIdle
SpecCodecNext == Resolve \/ Build
SpecCodec == SpecCodecInit /\ [][SpecCodecNext]_vars

\* Parsing parameter strings and reading parameters.
SpecParamsInit == ParamInit /\ CodecIdle /\ FacadeIdle /\ Lz4Idle /\ LzoIdle
SpecParamsNext == Parse \/ GetString \/ GetBool \/ GetParse
SpecParams == SpecParamsInit /\ [][SpecParamsNext]_vars

\* Calls on one Lz4Wrapper.
SpecLz4Init == Lz4Init /\ CodecIdle /\ ParamIdle /\ FacadeIdle /\ LzoIdle
SpecLz4Next == Lz4Write \/ Lz4Flush \/ Lz4Drop
SpecLz4 == SpecLz4Init /\ [][SpecLz4Next]_vars

\* Calls on one LZOWrapperW.
SpecLzoInit == LzoInit /\ CodecIdle /\ ParamIdle /\ FacadeIdle /\ Lz4Idle
SpecLzoNext == LzoWrite \/ LzoFlush
SpecLzo == SpecLzoInit /\ [][SpecLzoNext]_vars

----------------------------------------------------------------------------
(* The parameter-string grammar as the documentation words it, used to    *)
(* state the properties below: segments between ';', the first '=', the   *)
(* text around it without its surrounding whitespace, the last token of a *)
(* key.                                                                    *)

Blank(t) == \A i \in 1..Len(t) : is_whitespace(t[i])

\* t without its leading and trailing whitespace.
Stripped(t) ==
    IF Blank(t) THEN <<>>
    ELSE LET ink == {i \in 1..Len(t) : ~is_whitespace(t[i])}
             lo == CHOOSE i \in ink : \A j \in ink : i <= j
             hi == CHOOSE i \in ink : \A j \in ink : i >= j
         IN  SubSeq(t, lo, hi)

\* The k-th smallest element of a set of numbers.
Kth(P, k) == CHOOSE p \in P : Cardinality({q \in P : q < p}) = k - 1

\* The segments of s between its ';' characters, in order.
Segments(s) ==
    LET P == {i \in 1..Len(s) : s[i] = SEMI[1]}
        n == Cardinality(P)
        lo(j) == IF j = 1 THEN 1 ELSE Kth(P, j - 1) + 1
        hi(j) == IF j = n + 1 THEN Len(s) ELSE Kth(P, j) - 1
    IN  [j \in 1..(n + 1) |-> SubSeq(s, lo(j), hi(j))]

HasEqual(t) == \E i \in 1..Len(t) : t[i] = EQUAL[1]

FirstEqual(t) ==
    CHOOSE i \in 1..Len(t) :
        t[i] = EQUAL[1] /\ \A j \in 1..(i - 1) : t[j] # EQUAL[1]

KeyOf(t) == Stripped(SubSeq(t, 1, FirstEqual(t) - 1))
RawValueOf(t) == Stripped(SubSeq(t, FirstEqual(t) + 1, Len(t)))

Prefixed(v) == Len(v) >= 3 /\ SubSeq(v, 1, 3) = PREFIX

\* The value a token stores: a %%: value is stored percent-decoded.
ValueOf(t) ==
    IF Prefixed(RawValueOf(t))
    THEN decode_binary(SubSeq(RawValueOf(t), 4, Len(RawValueOf(t))))
    ELSE RawValueOf(t)

\* The indices of the kept tokens among the segments seg.
KeptOf(seg) == {j \in 1..Len(seg) : ~Blank(seg[j]) /\ HasEqual(seg[j])}

Kept(s) == KeptOf(Segments(s))

\* The map the documentation gives for s: each key with the value of its
\* last token.
DocumentedMap(s) ==
    LET seg == Segments(s)
        kept == KeptOf(seg)
        key == [j \in kept |-> KeyOf(seg[j])]
        last(k) == CHOOSE j \in kept :
                      key[j] = k /\ \A i \in kept : key[i] = k => i <= j
    IN  [k \in {key[j] : j \in kept} |-> ValueOf(seg[last(k)])]

NoPrefixedValue(s) ==
    LET seg == Segments(s)
    IN  \A j \in KeptOf(seg) : ~Prefixed(RawValueOf(seg[j]))

\* A %%: value of s whose percent-decoding is no UTF-8 text.
BadEscape(s) ==
    LET seg == Segments(s)
    IN  \E j \in KeptOf(seg) :
            /\ Prefixed(RawValueOf(seg[j]))
            /\ ~utf8_valid(ValueOf(seg[j]))

----------------------------------------------------------------------------
(* C3, C5: codec identifier resolution (SpecCodec) *)

\* The names and aliases of the codecs, in lower case.
Names ==
    << [name |-> S(<<"z","s","t","d">>), to |-> "Zstd"],
       [name |-> S(<<"z","s","t">>), to |-> "Zstd"],
       [name |-> S(<<"g","z","i","p">>), to |-> "Gzip"],
       [name |-> S(<<"g","z">>), to |-> "Gzip"],
       [name |-> S(<<"l","z","4">>), to |-> "LZ4"],
       [name |-> S(<<"s","n","a","p","p","y">>), to |-> "Snappy"],
       [name |-> S(<<"x","z">>), to |-> "XZ"],
       [name |-> S(<<"z","l","i","b">>), to |-> "Zlib"],
       [name |-> S(<<"b","z","i","p","2">>), to |-> "Bzip2"],
       [name |-> S(<<"b","z","2">>), to |-> "Bzip2"],
       [name |-> S(<<"d","e","f","l","a","t","e">>), to |-> "Deflate"] >>

Recognized(id) ==
    \E i \in 1..Len(Names) : to_ascii_lowercase(id) = Names[i].name

VariantOf(id) ==
    Names[CHOOSE i \in 1..Len(Names) : to_ascii_lowercase(id) = Names[i].name].to

C5_CaseInsensitive ==
    (resolved # "unresolved" /\ Recognized(ctype)) => resolved = VariantOf(ctype)

----------------------------------------------------------------------------
(* C7, C8: the ParamSet (SpecParams) *)

\* C7: get_bool returns the default for an absent or empty value, and else
\* whether the value is "true" ignoring ASCII case.
C7_GetBool ==
    call.fn = "get_bool" =>
        call.result =
            IF call.key \notin DOMAIN map \/ map[call.key] = EMPTY
            THEN call.default
            ELSE to_ascii_lowercase(map[call.key]) = S(<<"t","r","u","e">>)

\* C8: a parameter string without a %%: value parses, and to the map of
\* the grammar: segments between ';', blank ones and ones without '='
\* dropped, key and value around the first '=' trimmed, the last token of a
\* key winning.
C8_Parse ==
    (pstate # "new" /\ NoPrefixedValue(what)) =>
        (pstate = "parsed" /\ map = DocumentedMap(what))

\* A string with a dropped token and two tokens of one key was parsed.
C8_Witness ==
    /\ pstate = "parsed"
    /\ NoPrefixedValue(what)
    /\ Len(Segments(what)) = 2
    /\ Cardinality(Kept(what)) = 2
    /\ Cardinality(DOMAIN map) = 1
    /\ RawValueOf(Segments(what)[1]) # RawValueOf(Segments(what)[2])

----------------------------------------------------------------------------
(* C2: the Lz4Wrapper teardown (SpecLz4) *)

\* C2: once a teardown has run, the encoder was finished exactly once and
\* the raw sink flushed after it exactly once, and no teardown, the first
\* or a later one, has crashed.
C2_SingleFinalization ==
    log.drops >= 1 =>
        /\ log.finishes = 1
        /\ log.final_flushes = 1
        /\ src = <<>>
        /\ ~log.panicked

----------------------------------------------------------------------------
(* C6, C9: the LZOWrapperW write (SpecLzo) *)

LastAnswer(c) == c.answers[Len(c.answers)]

\* C6: a successful write returns the number of bytes of its input that
\* were consumed, between 0 and the input's length.
C6_WriteReturnsConsumed ==
    (lzocall.fn = "write" /\ lzocall.ok) =>
        (lzocall.n >= 0 /\ lzocall.n <= Len(lzocall.data))

\* C9: a write whose engine answers "output buffer too small" k times and
\* then success or "not compressible" returns no error; every attempt is
\* given the same input, each with at least twice the capacity of the one
\* before; the failed attempts send nothing to the raw sink, which gets the
\* bytes of the last attempt only: the compressed bytes, or the input.
C9_Retry ==
    (lzocall.fn = "write" /\ LastAnswer(lzocall) \in {"OK", "NOT_COMPRESSIBLE"}) =>
        LET a == lzocall.attempts
        IN  /\ lzocall.ok
            /\ Len(a) = Len(lzocall.answers)
            /\ \A i \in 1..Len(a) : a[i].input = lzocall.data
            /\ \A i \in 2..Len(a) : a[i].capacity >= 2 * a[i - 1].capacity
            /\ \A i \in 1..(Len(a) - 1) : a[i].sent = <<>>
            /\ writer = lzocall.before \o
                   (IF LastAnswer(lzocall) = "OK"
                    THEN lzo1x_literal(lzocall.data) ELSE lzocall.data)

\* A write that was retried twice and then compressed a non-empty input.
C9_Witness ==
    /\ lzocall.fn = "write"
    /\ Len(lzocall.answers) = 3
    /\ LastAnswer(lzocall) = "OK"
    /\ lzocall.data # <<>>
    /\ lzocall.ok

----------------------------------------------------------------------------
(* C1, C4, C10: the facade (Spec) *)

\* C4: a call of compressed_writer or decompressed_reader ends with a
\* stream or with an error value returned to the caller; none aborts.
C4_StreamOrError == phase # "writer_panic"

RoundTrip ==
    /\ phase = "reader_err" => engine = "refused"
    /\ phase # "read_err"
    /\ phase = "done" => data = payload

DocDefaultLevel(ct) ==
    CASE ct \in {"Zstd", "Gzip", "Zlib", "Deflate", "Bzip2"} -> 3
      [] ct = "LZ4" -> 1
      [] ct = "XZ" -> 6

LevelCodecs == {"Zstd", "Gzip", "Zlib", "Deflate", "Bzip2", "LZ4", "XZ"}

\* The parameters each codec reads.
Relevant(ct) ==
    IF ct = "LZ4" THEN {K_level, K_block_mode}
    ELSE IF ct \in LevelCodecs THEN {K_level}
    ELSE {}

\* An optional sign, then one decimal digit or more.
LooksInteger(v) ==
    LET digits == IF v # <<>> /\ v[1] \in {43, 45} THEN Tail(v) ELSE v
    IN  digits # <<>> /\ \A i \in 1..Len(digits) : digits[i] \in 48..57

\* s with the tokens of the keys in ks only.
OnlyKeys(s, ks) ==
    LET seg == Segments(s)
        keep == SelectSeq([j \in 1..Len(seg) |-> j],
                          LAMBDA j : j \in Kept(s) /\ KeyOf(seg[j]) \in ks)
    IN  Join([i \in 1..Len(keep) |-> seg[keep[i]]])

\* s with one more token, key=value.
With(s, k, v) == IF s = <<>> THEN KV(k, v) ELSE s \o SEMI \o KV(k, v)

Digit(n) == <<48 + n>>

\* What the dispatch configured, seen on the stream it returned.
Configured ==
    LET m == DocumentedMap(option)
        built_for(opt) == compressed_writer(codec, opt, TRUE).wrapper
    IN  /\ (codec \in LevelCodecs /\ K_level \notin DOMAIN m) =>
               wrapper = built_for(
                   With(option, K_level, Digit(DocDefaultLevel(codec))))
        /\ (codec = "LZ4" /\ K_block_mode \notin DOMAIN m) =>
               wrapper = built_for(With(option, K_block_mode, V_linked))
        /\ (/\ codec \in LevelCodecs
            /\ K_level \in DOMAIN m
            /\ ~LooksInteger(m[K_level])) =>
               wrapper.src[1].level = DocDefaultLevel(codec)
        /\ (/\ codec = "LZ4"
            /\ K_block_mode \in DOMAIN m
            /\ m[K_block_mode] # V_independent) =>
               wrapper.src[1].block_mode = "Linked"
        /\ wrapper = built_for(OnlyKeys(option, Relevant(codec)))

============================================================================
